---- MODULE Spec2Model ----
(***************************************************************************)
(* Model of nfqTrace.go: the NFQueue traceroute observer, its flow         *)
(* registry, the per-flow traceroute engine (NFQueueTraceroute) and the    *)
(* engine's response-timer goroutine.                                      *)
(*                                                                         *)
(* Goroutines: "div" is the divertor consumer started by Start (lines      *)
(* 140-152), "snf" is the ICMP sniffer started by startReceivingReplies    *)
(* (lines 203-231), and each engine's timer goroutine (lines 282-302) is   *)
(* named by the flow key of its engine.  pc[g] is the source line the      *)
(* goroutine g is about to execute.  The engine's fields are not protected *)
(* by any lock, so every read and write of a field shared between          *)
(* goroutines is a step of its own.                                        *)
(***************************************************************************)
EXTENDS Integers, Sequences, FiniteSets, Bags, TLC

VARIABLES
    options,    \* NFQueueTraceObserver.options: ttlMax, ttlRepeatMax, mangleFreq
    flowMap,    \* FlowTracker.flowMap: flow key -> engine (NFQueueTraceroute)
    pc,         \* position of every goroutine
    curPkt,     \* the NFPacket the divertor consumer is processing
    verdict,    \* verdicts set on curPkt so far, in order
    delivered,  \* per flow key ("none": no TCP/IP layers): packets delivered so far
    curFrame,   \* the ICMP frame whose reply the sniffer is processing
    wire,       \* bag of ICMP time-exceeded frames on their way to the sniffer
    stopEntry,  \* goroutines whose running Stop() call began on a stopped engine
    panicked,   \* "none", or the goroutine whose panic ended the process
    observer,   \* NFQueueTraceObserver: its done channel, the caller of its
                \* Stop(), and how often nfq.Close() has run
    created,    \* per flow key: calls of NewNFQueueTraceroute made for it
    restarts,   \* per flow key: restart signals its timer received (a uint8)
    expired     \* per flow key: time.After fired since the timer (re)started

vars == <<options, flowMap, pc, curPkt, verdict, delivered, curFrame, wire,
          stopEntry, panicked, observer, created, restarts, expired>>

---------------------------------------------------------------------------
(* Bounds of the model. *)

MaxTtlMax == 2
MaxRepeatMax == 2
MaxMangleFreq == 2
MaxPackets == 3
MaxPacketsSeq == 512
MaxPacketsObs == 2
MaxTtlMaxObs == 2
MaxTtlMaxSeq == 3
CountPeriods == 5

(* Program constants. *)

MAX_TTL == 255
Uint8 == 256
InitialTTL == 1
InitialRepeat == 1
InitialCount == 1

---------------------------------------------------------------------------
(* Values. *)

FlowKeys == {"f1"}
Goroutines == {"div", "snf"} \cup FlowKeys
Unbounded == 0 - 1
NoPkt == [flow |-> "nil", layers |-> FALSE, ser |-> FALSE]
NoFrame == [te |-> FALSE, flow |-> "nil", src |-> 0]

\* A diverted packet: whether it decodes to IPv4 and TCP layers, the flow
\* key of those layers, and whether gopacket.SerializeLayers succeeds on it.
NonTcp == [flow |-> "none", layers |-> FALSE, ser |-> FALSE]
TcpPackets(K) == [flow : K, layers : {TRUE}, ser : BOOLEAN]
Packets(K) == {NonTcp} \cup TcpPackets(K)

Accept == [kind |-> "ACCEPT", bytes |-> FALSE, ttl |-> 0]
Repeat(b) == [kind |-> "REPEAT", bytes |-> b.ok, ttl |-> b.ttl]

Crashed == panicked # "none"
Eng(f) == flowMap[f]
EngineOf(g) == IF g = "div" THEN curPkt.flow ELSE IF g = "snf" THEN curFrame.flow ELSE g
Goto(g, l) == pc' = [pc EXCEPT ![g] = l]

\* uint8 arithmetic of n.ttl += 1
IncU8(x) == (x + 1) % Uint8

\* count is a Go int that is only ever read as count % mangleFreq (line 323);
\* it is kept modulo a multiple of mangleFreq, which preserves that residue.
CountModulus(n) == n.mangleFreq * CountPeriods
IncCount(n) == (n.count + 1) % CountModulus(n)

---------------------------------------------------------------------------
(* NewNFQueueTraceroute, lines 260-277. *)

NewNFQueueTraceroute(ttlMax, ttlRepeatMax, mangleFreq) ==
    [ttl |-> InitialTTL,
     ttlMax |-> ttlMax,
     ttlRepeat |-> InitialRepeat,
     ttlRepeatMax |-> ttlRepeatMax,
     mangleFreq |-> mangleFreq,
     count |-> InitialCount,
     traceResult |-> <<>>,
     stopped |-> FALSE,
     responseTimedOut |-> FALSE,
     stopTimerChannel |-> "open",
     restartTimerChannel |-> "open"]

(* serializeWithTTL, lines 368-390: nil when a layer is missing or when    *)
(* SerializeLayers fails, else the packet's bytes with IPv4.TTL = ttl.     *)
serializeWithTTL(p, ttl) ==
    IF ~p.layers THEN [ok |-> FALSE, ttl |-> 0]
    ELSE IF ~p.ser THEN [ok |-> FALSE, ttl |-> 0]
    ELSE [ok |-> TRUE, ttl |-> ttl]

(* A probe reinjected with TTL k expires at hop k; if a router is there it *)
(* may answer with an ICMP time-exceeded frame from its address (k).       *)
Routers == 1..MAX_TTL
Probe(f, v, routers) ==
    IF v.kind = "REPEAT" /\ v.bytes /\ v.ttl \in routers
    THEN {wire, wire (+) SetToBag({[flow |-> f, src |-> v.ttl]})}
    ELSE {wire}

---------------------------------------------------------------------------
(* The divertor consumer: Start, lines 140-152. *)

\* packets delivered so far, of every kind
RECURSIVE Total(_, _)
Total(d, K) ==
    IF K = {} THEN 0
    ELSE LET k == CHOOSE x \in K : TRUE IN d[k] + Total(d, K \ {k})

\* line 143: a packet arrives on o.packets
Deliver(p, max) ==
    /\ ~Crashed
    /\ pc["div"] = "d143"
    /\ max = Unbounded \/ Total(delivered, DOMAIN delivered) < max
    /\ curPkt' = p
    /\ verdict' = <<>>
    /\ delivered' = IF max = Unbounded THEN delivered
                    ELSE [delivered EXCEPT ![p.flow] = @ + 1]
    /\ Goto("div", "o161")
    /\ UNCHANGED <<observer, created, restarts, expired, options, flowMap,
                   curFrame, wire, stopEntry, panicked>>

\* NFQueueTraceObserver.Stop, line 156: the caller starts its send on the
\* unbuffered done channel and waits for the divertor consumer to take it
ObserverStop ==
    /\ ~Crashed
    /\ observer.caller = "idle"
    /\ observer' = [observer EXCEPT !.caller = "o156"]
    /\ UNCHANGED <<created, restarts, expired, options, flowMap, pc, curPkt,
                   verdict, delivered, curFrame, wire, stopEntry, panicked>>

\* line 145: case <-o.done.  On the open channel the receive is the
\* rendezvous with the caller of Stop, which then returns; on the closed
\* channel it is ready at once.
DoneReceive ==
    /\ ~Crashed
    /\ pc["div"] = "d143"
    /\ IF observer.done = "closed"
       THEN UNCHANGED observer
       ELSE /\ observer.caller = "o156"
            /\ observer' = [observer EXCEPT !.caller = "returned"]
    /\ Goto("div", "d146")
    /\ UNCHANGED <<created, restarts, expired, options, flowMap, curPkt,
                   verdict, delivered, curFrame, wire, stopEntry, panicked>>

\* line 146: o.nfq.Close().  Closing the queue a second time destroys a
\* handle that is already destroyed: the process may crash there or go on.
NfqClose ==
    /\ ~Crashed
    /\ pc["div"] = "d146"
    /\ \/ /\ observer' = [observer EXCEPT !.nfqClosed = @ + 1]
          /\ Goto("div", "d147")
          /\ UNCHANGED panicked
       \/ /\ observer.nfqClosed >= 1
          /\ panicked' = "div"
          /\ UNCHANGED <<observer, pc>>
    /\ UNCHANGED <<created, restarts, expired, options, flowMap, curPkt,
                   verdict, delivered, curFrame, wire, stopEntry>>

\* lines 147-149: close(o.done), which panics on a closed channel; the break
\* leaves the select only, so the loop of line 141 goes on to the select
CloseDone ==
    /\ ~Crashed
    /\ pc["div"] = "d147"
    /\ IF observer.done = "closed"
       THEN /\ panicked' = "div"
            /\ UNCHANGED <<observer, pc>>
       ELSE /\ observer' = [observer EXCEPT !.done = "closed"]
            /\ Goto("div", "d143")
            /\ UNCHANGED panicked
    /\ UNCHANGED <<created, restarts, expired, options, flowMap, curPkt,
                   verdict, delivered, curFrame, wire, stopEntry>>

\* FlowTracker.HasFlow, lines 67-72
HasFlow_Never(flow) == FALSE
HasFlow(flow) == flow \in DOMAIN flowMap

\* FlowTracker.AddFlow, lines 74-78: f.flowMap[flow] = nfqTrace
AddFlow(flow, nfqTrace) ==
    [k \in DOMAIN flowMap \cup {flow} |-> IF k = flow THEN nfqTrace ELSE flowMap[k]]

\* NFQueueTraceObserver.processPacket, lines 160-177.  The registry is
\* written by this goroutine only and each of its methods runs under the
\* registry's lock, so HasFlow, AddFlow and GetFlowTrace are one step; the
\* new engine's timer goroutine starts inside NewNFQueueTraceroute (line 275).
ObserverProcessPacket ==
    /\ ~Crashed
    /\ pc["div"] = "o161"
    /\ IF ~curPkt.layers
       THEN /\ Goto("div", "d143")
            /\ UNCHANGED <<flowMap, created, restarts, expired>>
       ELSE LET f == curPkt.flow IN
            IF HasFlow(f)
            THEN /\ Goto("div", "n318")
                 /\ UNCHANGED <<flowMap, created, restarts, expired>>
            ELSE /\ flowMap' = AddFlow(f, NewNFQueueTraceroute(options.ttlMax,
                                   options.ttlRepeatMax, options.mangleFreq))
                 /\ created' = [created EXCEPT ![f] = @ + 1]
                 /\ restarts' = [restarts EXCEPT ![f] = 0]
                 /\ expired' = [expired EXCEPT ![f] = FALSE]
                 /\ pc' = [pc EXCEPT !["div"] = "n318", ![f] = "t284"]
    /\ UNCHANGED <<observer, options, curPkt, verdict, delivered, curFrame,
                   wire, stopEntry, panicked>>

---------------------------------------------------------------------------
(* NFQueueTraceroute.processPacket, lines 316-353 (run by "div"). *)

\* line 318
IsStopped_Never(n) == FALSE
IsStopped(n) == n.stopped

\* line 323
MangleCandidate_OffByOne(n) == (n.count + 1) % n.mangleFreq = 0
MangleCandidate(n) == n.count % n.mangleFreq = 0

\* lines 318-323 and 350-352: the stopped check, the pacing check, and the
\* pass-through branch
ProcessPacketEntry ==
    /\ ~Crashed
    /\ pc["div"] = "n318"
    /\ LET f == curPkt.flow
           n == Eng(f) IN
       IF IsStopped(n)
       THEN /\ verdict' = Append(verdict, Accept)
            /\ Goto("div", "d143")
            /\ UNCHANGED flowMap
       ELSE IF MangleCandidate(n)
       THEN /\ Goto("div", "n326")
            /\ UNCHANGED <<verdict, flowMap>>
       ELSE /\ verdict' = Append(verdict, Accept)
            /\ flowMap' = [flowMap EXCEPT ![f].count = IncCount(n)]
            /\ Goto("div", "d143")
    /\ UNCHANGED <<observer, created, restarts, expired, options, curPkt,
                   delivered, curFrame, wire, stopEntry, panicked>>

\* line 326: n.ttlRepeat += 1
IncTtlRepeat ==
    /\ ~Crashed
    /\ pc["div"] = "n326"
    /\ flowMap' = [flowMap EXCEPT ![curPkt.flow].ttlRepeat = @ + 1]
    /\ Goto("div", "n328")
    /\ UNCHANGED <<observer, created, restarts, expired, options, curPkt,
                   verdict, delivered, curFrame, wire, stopEntry, panicked>>

\* lines 328 and 333: which branch advances the TTL
AdvanceBranch_RepeatOnly(n) == IF n.ttlRepeat = n.ttlRepeatMax THEN "n329" ELSE "n342"
AdvanceBranch(n) ==
    IF n.responseTimedOut THEN "n329"
    ELSE IF n.ttlRepeat = n.ttlRepeatMax THEN "n329"
    ELSE "n342"

CheckAdvance ==
    /\ ~Crashed
    /\ pc["div"] = "n328"
    /\ Goto("div", AdvanceBranch(Eng(curPkt.flow)))
    /\ UNCHANGED <<observer, created, restarts, expired, options, flowMap,
                   curPkt, verdict, delivered, curFrame, wire, stopEntry,
                   panicked>>

\* lines 329 and 335: n.ttl += 1
AdvanceTtl ==
    /\ ~Crashed
    /\ pc["div"] = "n329"
    /\ flowMap' = [flowMap EXCEPT ![curPkt.flow].ttl = IncU8(@)]
    /\ Goto("div", "n330")
    /\ UNCHANGED <<observer, created, restarts, expired, options, curPkt,
                   verdict, delivered, curFrame, wire, stopEntry, panicked>>

\* lines 330 and 336: n.ttlRepeat = 0
ResetTtlRepeat ==
    /\ ~Crashed
    /\ pc["div"] = "n330"
    /\ flowMap' = [flowMap EXCEPT ![curPkt.flow].ttlRepeat = 0]
    /\ Goto("div", "n331")
    /\ UNCHANGED <<observer, created, restarts, expired, options, curPkt,
                   verdict, delivered, curFrame, wire, stopEntry, panicked>>

\* lines 331 and 337: n.responseTimedOut = false
ClearTimedOut ==
    /\ ~Crashed
    /\ pc["div"] = "n331"
    /\ flowMap' = [flowMap EXCEPT ![curPkt.flow].responseTimedOut = FALSE]
    /\ Goto("div", "n332")
    /\ UNCHANGED <<observer, created, restarts, expired, options, curPkt,
                   verdict, delivered, curFrame, wire, stopEntry, panicked>>

\* lines 332 and 338: n.restartTimerChannel <- true.  The channel is
\* unbuffered: the send completes when the timer goroutine is at its select
\* (line 284), which then continues its loop (lines 294-296); a send on a
\* closed channel panics.
RestartSend ==
    /\ ~Crashed
    /\ pc["div"] = "n332"
    /\ LET f == curPkt.flow IN
       IF Eng(f).restartTimerChannel = "closed"
       THEN /\ panicked' = "div"
            /\ UNCHANGED <<pc, restarts, expired>>
       ELSE /\ pc[f] = "t284"
            /\ Goto("div", "n342")
            /\ restarts' = [restarts EXCEPT ![f] = IncU8(@)]
            /\ expired' = [expired EXCEPT ![f] = FALSE]
            /\ UNCHANGED panicked
    /\ UNCHANGED <<observer, created, options, flowMap, curPkt, verdict,
                   delivered, curFrame, wire, stopEntry>>

\* the call itself: the caller moves to line 307
CallStop(g, n) ==
    /\ Goto(g, "s307")
    /\ stopEntry' = IF n.stopped THEN stopEntry \cup {g} ELSE stopEntry \ {g}

\* where Stop returns to: line 344, the sniffer loop, or the timer's return
AfterStop(g) == IF g = "div" THEN "n344" ELSE IF g = "snf" THEN "f205" ELSE "tDone"

\* line 342
Overrun(n) == n.ttl > n.ttlMax /\ n.ttlRepeat = n.ttlRepeatMax - 1

\* lines 342-348 and 352: the termination check, else the mangle verdict
MangleOrStop(routers) ==
    /\ ~Crashed
    /\ pc["div"] = "n342"
    /\ LET f == curPkt.flow
           n == Eng(f) IN
       IF Overrun(n)
       THEN /\ CallStop("div", n)
            /\ UNCHANGED <<flowMap, verdict, wire>>
       ELSE LET v == Repeat(serializeWithTTL(curPkt, n.ttl)) IN
            /\ verdict' = Append(verdict, v)
            /\ wire' \in Probe(f, v, routers)
            /\ flowMap' = [flowMap EXCEPT ![f].count = IncCount(n)]
            /\ Goto("div", "d143")
            /\ UNCHANGED stopEntry
    /\ UNCHANGED <<observer, created, restarts, expired, options, curPkt,
                   delivered, curFrame, panicked>>

\* line 344, after Stop() has returned
AcceptAfterStop ==
    /\ ~Crashed
    /\ pc["div"] = "n344"
    /\ verdict' = Append(verdict, Accept)
    /\ Goto("div", "d143")
    /\ UNCHANGED <<observer, created, restarts, expired, options, flowMap,
                   curPkt, delivered, curFrame, wire, stopEntry, panicked>>

---------------------------------------------------------------------------
(* NFQueueTraceroute.Stop, lines 305-312, run by whichever goroutine g     *)
(* called it: "div" (line 343), "snf" (line 362) or the engine's own timer *)
(* (line 289).                                                             *)

\* line 307: n.stopped = true
StopSetStopped(g) ==
    /\ ~Crashed
    /\ pc[g] = "s307"
    /\ flowMap' = [flowMap EXCEPT ![EngineOf(g)].stopped = TRUE]
    /\ Goto(g, "s308")
    /\ UNCHANGED <<observer, created, restarts, expired, options, curPkt,
                   verdict, delivered, curFrame, wire, stopEntry, panicked>>

\* line 308: n.stopTimerChannel <- true.  Unbuffered: the send completes
\* when the engine's timer goroutine is at its select, which then returns
\* (lines 297-299); a send on a closed channel panics.
StopSend(g) ==
    /\ ~Crashed
    /\ pc[g] = "s308"
    /\ LET f == EngineOf(g) IN
       IF Eng(f).stopTimerChannel = "closed"
       THEN /\ panicked' = g
            /\ UNCHANGED pc
       ELSE /\ pc[f] = "t284"
            /\ pc' = [pc EXCEPT ![g] = "s309", ![f] = "tDone"]
            /\ UNCHANGED panicked
    /\ UNCHANGED <<observer, created, restarts, expired, options, flowMap,
                   curPkt, verdict, delivered, curFrame, wire, stopEntry>>

\* line 309: close(n.stopTimerChannel); closing a closed channel panics
StopCloseStop(g) ==
    /\ ~Crashed
    /\ pc[g] = "s309"
    /\ LET f == EngineOf(g) IN
       IF Eng(f).stopTimerChannel = "closed"
       THEN /\ panicked' = g
            /\ UNCHANGED <<pc, flowMap>>
       ELSE /\ flowMap' = [flowMap EXCEPT ![f].stopTimerChannel = "closed"]
            /\ Goto(g, "s310")
            /\ UNCHANGED panicked
    /\ UNCHANGED <<observer, created, restarts, expired, options, curPkt,
                   verdict, delivered, curFrame, wire, stopEntry>>

\* line 310: close(n.restartTimerChannel), then Stop returns
StopCloseRestart(g) ==
    /\ ~Crashed
    /\ pc[g] = "s310"
    /\ LET f == EngineOf(g) IN
       IF Eng(f).restartTimerChannel = "closed"
       THEN /\ panicked' = g
            /\ UNCHANGED <<pc, flowMap, stopEntry>>
       ELSE /\ flowMap' = [flowMap EXCEPT ![f].restartTimerChannel = "closed"]
            /\ Goto(g, AfterStop(g))
            /\ stopEntry' = stopEntry \ {g}
            /\ UNCHANGED panicked
    /\ UNCHANGED <<observer, created, restarts, expired, options, curPkt,
                   verdict, delivered, curFrame, wire>>

---------------------------------------------------------------------------
(* The response timer goroutine of engine f: StartResponseTimer, lines     *)
(* 279-303.  Its two receive cases are the rendezvous of RestartSend and   *)
(* StopSend.                                                               *)

\* line 285: time.After fires
TimerExpire(f) ==
    /\ ~Crashed
    /\ pc[f] = "t284"
    /\ Goto(f, "t288")
    /\ expired' = [expired EXCEPT ![f] = TRUE]
    /\ UNCHANGED <<observer, created, restarts, options, flowMap, curPkt,
                   verdict, delivered, curFrame, wire, stopEntry, panicked>>

\* line 288, left operand: n.ttl >= n.ttlMax
TimerCheckTtl(f) ==
    /\ ~Crashed
    /\ pc[f] = "t288"
    /\ Goto(f, IF Eng(f).ttl >= Eng(f).ttlMax THEN "t288r" ELSE "t293")
    /\ UNCHANGED <<observer, created, restarts, expired, options, flowMap,
                   curPkt, verdict, delivered, curFrame, wire, stopEntry,
                   panicked>>

\* line 288, right operand: n.ttlRepeat >= n.ttlRepeatMax; line 289 calls Stop
TimerCheckRepeat(f) ==
    /\ ~Crashed
    /\ pc[f] = "t288r"
    /\ IF Eng(f).ttlRepeat >= Eng(f).ttlRepeatMax
       THEN CallStop(f, Eng(f))
       ELSE Goto(f, "t293") /\ UNCHANGED stopEntry
    /\ UNCHANGED <<observer, created, restarts, expired, options, flowMap,
                   curPkt, verdict, delivered, curFrame, wire, panicked>>

\* line 293: n.responseTimedOut = true; the loop re-arms time.After
TimerSetTimedOut(f) ==
    /\ ~Crashed
    /\ pc[f] = "t293"
    /\ flowMap' = [flowMap EXCEPT ![f].responseTimedOut = TRUE]
    /\ Goto(f, "t284")
    /\ UNCHANGED <<observer, created, restarts, expired, options, curPkt,
                   verdict, delivered, curFrame, wire, stopEntry, panicked>>

---------------------------------------------------------------------------
(* The sniffer consumer: startReceivingReplies, lines 203-231. *)

\* Frames the sniffer can read besides the replies to probes: ICMP of
\* another type, and time-exceeded frames whose payload names another flow.
Noise ==
    {[te |-> FALSE, flow |-> f, src |-> 1] : f \in FlowKeys}
    \cup {[te |-> TRUE, flow |-> f, src |-> 1] : f \in (FlowKeys \cup {"f0"}) \ DOMAIN flowMap}
Replies == {[te |-> TRUE, flow |-> r.flow, src |-> r.src] : r \in BagToSet(wire)}

\* lines 213-216: the ICMP type test
IsTimeExceeded_Always(fr) == TRUE
IsTimeExceeded(fr) == fr.te

\* lines 205-229: read a frame and decode it into the sniffer's layer
\* variables (lines 186-189), filter it, look its flow up, call replyReceived
SnifferRead(fr) ==
    /\ ~Crashed
    /\ pc["snf"] = "f205"
    /\ wire' = IF fr \in Noise THEN wire
               ELSE wire (-) SetToBag({[flow |-> fr.flow, src |-> fr.src]})
    /\ curFrame' = fr
    /\ IF IsTimeExceeded(fr) /\ HasFlow(fr.flow)
       THEN Goto("snf", "r360")
       ELSE UNCHANGED pc
    /\ UNCHANGED <<observer, created, restarts, expired, options, flowMap,
                   curPkt, verdict, delivered, stopEntry, panicked>>

\* len(n.traceResult[ttl]) of a Go map: 0 for a missing key
ResultLen(n, ttl) == IF ttl \in DOMAIN n.traceResult THEN Len(n.traceResult[ttl]) ELSE 0

\* append(n.traceResult[ttl], ip)
AppendResult(n, ttl, ip) ==
    IF ttl \in DOMAIN n.traceResult
    THEN [n.traceResult EXCEPT ![ttl] = Append(@, ip)]
    ELSE n.traceResult @@ (ttl :> <<ip>>)

\* replyReceived, line 360
ReplyAppend ==
    /\ ~Crashed
    /\ pc["snf"] = "r360"
    /\ LET f == curFrame.flow
           n == Eng(f) IN
       flowMap' = [flowMap EXCEPT ![f].traceResult = AppendResult(n, n.ttl, curFrame.src)]
    /\ Goto("snf", "r361")
    /\ UNCHANGED <<observer, created, restarts, expired, options, curPkt,
                   verdict, delivered, curFrame, wire, stopEntry, panicked>>

\* line 361
Finished(n) == n.ttl = n.ttlMax /\ ResultLen(n, n.ttl) >= n.ttlRepeatMax

\* replyReceived, lines 361-364
ReplyCheck ==
    /\ ~Crashed
    /\ pc["snf"] = "r361"
    /\ LET n == Eng(curFrame.flow) IN
       IF Finished(n)
       THEN CallStop("snf", n)
       ELSE Goto("snf", "f205") /\ UNCHANGED stopEntry
    /\ UNCHANGED <<observer, created, restarts, expired, options, flowMap,
                   curPkt, verdict, delivered, curFrame, wire, panicked>>

---------------------------------------------------------------------------
(* Specifications. *)

Options(ttlMaxes, repeatMaxes, mangleFreqs) ==
    [ttlMax : ttlMaxes, ttlRepeatMax : repeatMaxes, mangleFreq : mangleFreqs]

\* the state after NewNFQueueTraceObserver and Start, lines 119-153
InitWith(opts) ==
    /\ options \in opts
    /\ flowMap = <<>>
    /\ pc = [g \in Goroutines |->
               IF g = "div" THEN "d143" ELSE IF g = "snf" THEN "f205" ELSE "unborn"]
    /\ curPkt = NoPkt
    /\ verdict = <<>>
    /\ delivered = [f \in FlowKeys \cup {"none"} |-> 0]
    /\ curFrame = NoFrame
    /\ wire = EmptyBag
    /\ stopEntry = {}
    /\ panicked = "none"
    /\ observer = [done |-> "open", caller |-> "idle", nfqClosed |-> 0]
    /\ created = [f \in FlowKeys |-> 0]
    /\ restarts = [f \in FlowKeys |-> 0]
    /\ expired = [f \in FlowKeys |-> FALSE]

Init == InitWith(Options(1..MaxTtlMax, 1..MaxRepeatMax, 1..MaxMangleFreq))

DivertorStep(routers) ==
    \/ ObserverProcessPacket
    \/ ProcessPacketEntry
    \/ IncTtlRepeat
    \/ CheckAdvance
    \/ AdvanceTtl
    \/ ResetTtlRepeat
    \/ ClearTimedOut
    \/ RestartSend
    \/ MangleOrStop(routers)
    \/ AcceptAfterStop

StopStep(g) ==
    \/ StopSetStopped(g)
    \/ StopSend(g)
    \/ StopCloseStop(g)
    \/ StopCloseRestart(g)

TimerStep(f) ==
    \/ TimerExpire(f)
    \/ TimerCheckTtl(f)
    \/ TimerCheckRepeat(f)
    \/ TimerSetTimedOut(f)

\* frames: the ICMP frames the capture handle delivers
SnifferStep(frames) ==
    \/ \E fr \in frames : SnifferRead(fr)
    \/ ReplyAppend
    \/ ReplyCheck

Next ==
    \/ \E p \in Packets(FlowKeys) : Deliver(p, MaxPackets)
    \/ DivertorStep(Routers)
    \/ \E g \in Goroutines : StopStep(g)
    \/ \E f \in FlowKeys : TimerStep(f)
    \/ SnifferStep(Replies)

Spec == Init /\ [][Next]_vars

(* The observer as a library: besides the replies to its probes the sniffer *)
(* reads other ICMP frames, and the owner of the observer may call Stop().  *)
(* (main never calls Stop(), line 446, and a frame that is filtered out     *)
(* only overwrites the sniffer's decoded layers.)                           *)

ObserverStopStep ==
    \/ ObserverStop
    \/ DoneReceive
    \/ NfqClose
    \/ CloseDone

ObserverInit == InitWith(Options(1..MaxTtlMaxObs, 1..MaxRepeatMax, {1}))

ObserverNext ==
    \/ \E p \in Packets(FlowKeys) : Deliver(p, MaxPacketsObs)
    \/ DivertorStep(Routers)
    \/ \E g \in Goroutines : StopStep(g)
    \/ \E f \in FlowKeys : TimerStep(f)
    \/ SnifferStep(Noise \cup Replies)
    \/ ObserverStopStep

ObserverSpec == ObserverInit /\ [][ObserverNext]_vars

(* The divertor alone: no response timer expires and no reply arrives.     *)
(* The timer goroutine still takes the restart and stop signals.           *)

TraceOptions == Options((1..MaxTtlMaxSeq) \cup {MAX_TTL}, 1..MaxRepeatMax, 1..MaxMangleFreq)

SeqInit == InitWith(TraceOptions)

SeqNext ==
    \/ \E p \in TcpPackets(FlowKeys) : Deliver(p, MaxPacketsSeq)
    \/ DivertorStep({})
    \/ StopStep("div")

SeqSpec == SeqInit /\ [][SeqNext]_vars

(* No reply arrives, packets of the flow keep arriving and the timer keeps *)
(* expiring.  A goroutine that can run does run; a channel operation whose *)
(* partner keeps coming back to its select is taken (the timer goroutine   *)
(* waits at line 284 for 200 s, a ready sender is served at once).         *)

FairOptions == [ttlMax |-> 1, ttlRepeatMax |-> 2, mangleFreq |-> 1]

FairInit == InitWith({FairOptions})

DeliverFlow == \E p \in {q \in TcpPackets(FlowKeys) : q.ser} : Deliver(p, Unbounded)

FairNext ==
    \/ DeliverFlow
    \/ DivertorStep({})
    \/ \E g \in {"div"} \cup FlowKeys : StopStep(g)
    \/ \E f \in FlowKeys : TimerStep(f)

Fairness ==
    /\ SF_vars(DeliverFlow)
    /\ WF_vars(DivertorStep({}))
    /\ SF_vars(RestartSend)
    /\ \A g \in {"div"} \cup FlowKeys : WF_vars(StopStep(g)) /\ SF_vars(StopSend(g))
    /\ \A f \in FlowKeys : WF_vars(TimerStep(f))

FairSpec == FairInit /\ [][FairNext]_vars /\ Fairness

---------------------------------------------------------------------------
(* Claims. *)

Engines == DOMAIN flowMap
DivIdle == pc["div"] = "d143"
\* the divertor consumer takes a step of processPacket's first statement
EntryStep == pc["div"] = "n318" /\ pc'["div"] # "n318"

\* C1: every packet the divertor delivered to processPacket has exactly one
\* verdict when processPacket returns, packets without IPv4 or TCP layer too.
C1_ExactlyOneVerdict ==
    (DivIdle /\ curPkt # NoPkt) => Len(verdict) = 1

\* C2: a stopped engine stays stopped, and a processPacket call on a stopped
\* engine sets ACCEPT and returns without changing any field of the engine.
C2_StoppedIsTerminal ==
    [][/\ \A f \in Engines : flowMap[f].stopped => flowMap'[f].stopped
       /\ (EntryStep /\ Eng(curPkt.flow).stopped) =>
             /\ verdict' = <<Accept>>
             /\ pc'["div"] = "d143"
             /\ flowMap' = flowMap]_vars

C2_Witness ==
    /\ DivIdle
    /\ curPkt.flow \in Engines
    /\ verdict = <<Accept>>
    /\ Eng(curPkt.flow).stopped
    /\ Eng(curPkt.flow).mangleFreq = 1
    /\ Eng(curPkt.flow).ttl <= Eng(curPkt.flow).ttlMax

\* C3: with no timer expiry and no reply, for every ttlMax in 1..255, ttl
\* never decreases from one step to the next and never exceeds ttlMax + 1.
C3_TtlMonotoneBounded ==
    [][\A f \in Engines :
          /\ flowMap'[f].ttl >= flowMap[f].ttl
          /\ flowMap'[f].ttl <= flowMap'[f].ttlMax + 1]_vars

\* C4: between two processPacket calls, 0 <= ttlRepeat <= ttlRepeatMax, for
\* every ttlRepeatMax >= 1.
C4_TtlRepeatInRange ==
    DivIdle => \A f \in Engines :
        0 <= Eng(f).ttlRepeat /\ Eng(f).ttlRepeat <= Eng(f).ttlRepeatMax

\* C5: in every reachable state ttl <= ttlMax + 1.
C5_TtlAtMostSentinel ==
    \A f \in Engines : Eng(f).ttl <= Eng(f).ttlMax + 1

\* C6: with mangleFreq = 1 and no timer expiry, the k-th packet of a flow,
\* 1 <= k <= ttlMax * ttlRepeatMax, is reinjected with TTL ceil(k / ttlRepeatMax).
CeilDiv(a, b) == (a + b - 1) \div b
C6_ProbingSchedule ==
    \A f \in Engines :
        LET n == Eng(f)
            k == delivered[f] IN
        (/\ DivIdle /\ curPkt.flow = f /\ curPkt.ser
         /\ n.mangleFreq = 1
         /\ k <= n.ttlMax * n.ttlRepeatMax)
        => verdict = <<[kind |-> "REPEAT", bytes |-> TRUE,
                        ttl |-> CeilDiv(k, n.ttlRepeatMax)]>>

\* C7: on an engine that is not stopped, the n-th packet of the flow is a
\* mangle candidate iff n mod mangleFreq = 0; any other packet gets ACCEPT
\* and changes no field of the engine except count, which grows by one.
C7_ManglePacing ==
    [][LET f == curPkt.flow
           n == Eng(f) IN
       (EntryStep /\ ~n.stopped) =>
          IF delivered[f] % n.mangleFreq = 0
          THEN /\ pc'["div"] = "n326"
               /\ verdict' = <<>>
               /\ flowMap' = flowMap
          ELSE /\ pc'["div"] = "d143"
               /\ verdict' = <<Accept>>
               /\ flowMap' = [flowMap EXCEPT ![f].count = n.count + 1]]_vars

C7_Witness ==
    /\ DivIdle
    /\ curPkt.flow \in Engines
    /\ Eng(curPkt.flow).mangleFreq = 2
    /\ ~Eng(curPkt.flow).stopped
    /\ delivered[curPkt.flow] = 3
    /\ Eng(curPkt.flow).count = 4
    /\ verdict = <<Accept>>

\* C8: a Stop() call on an engine that is already stopped returns normally:
\* the goroutine that made it does not panic.
C8_StopIdempotent ==
    \A g \in stopEntry : panicked # g

\* C9: when the response timer itself calls Stop() (line 289), the call
\* completes: at its send of the stop signal (line 308) the timer goroutine
\* is not blocked, the send can be taken.
C9_TimerStopCompletes ==
    \A f \in Engines : pc[f] = "s308" => ENABLED StopSend(f)

\* C10: with no reply, packets of the flow arriving for ever and the timer
\* expiring for ever, the engine is eventually stopped.
C10_EventuallyStopped ==
    <>(\E f \in Engines : Eng(f).stopped)

\* C11: once the observer's Stop() has been taken, the divertor is closed
\* exactly once and the divertor consumer loop has exited: nfq.Close() never
\* runs a second time, and after close(o.done) the consumer is not back at
\* its select.
C11_ObserverShutdown ==
    /\ observer.nfqClosed <= 1
    /\ observer.done = "closed" => pc["div"] # "d143"

\* C12: for every flow key at most one engine and one timer goroutine is
\* ever created, on the first diverted packet of the flow; the key is never
\* removed from the registry and never given another engine, under every
\* interleaving with the sniffer and after the engine has stopped.
C12_RegistryUnique ==
    [][\A f \in FlowKeys :
          /\ created'[f] <= 1
          /\ (f \in DOMAIN flowMap') <=> (created'[f] = 1)
          /\ (pc'[f] = "unborn") <=> (created'[f] = 0)
          /\ f \in DOMAIN flowMap => f \in DOMAIN flowMap'
          /\ created'[f] # created[f] =>
                pc["div"] = "o161" /\ curPkt.flow = f /\ delivered[f] = 1
          /\ (pc["div"] = "o161" /\ pc'["div"] # "o161" /\ curPkt.flow = f) =>
                f \in DOMAIN flowMap']_vars

C12_Witness ==
    /\ DivIdle
    /\ curPkt.flow \in Engines
    /\ delivered[curPkt.flow] >= 2
    /\ created[curPkt.flow] = 1
    /\ Eng(curPkt.flow).stopped
    /\ curFrame.flow = curPkt.flow
    /\ pc["snf"] = "f205"

\* C13: when the sniffer reads an ICMP frame that is not time-exceeded, or
\* whose payload names a flow that is not in the registry, no engine is
\* created, the registry and every engine are unchanged and no goroutine
\* moves (replyReceived is not called); the registry grows only in the
\* divertor consumer's processPacket.
C13_SnifferFrame ==
    [][/\ (pc["snf"] = "f205" /\ curFrame' # curFrame /\ curFrame' \in Noise) =>
             /\ flowMap' = flowMap
             /\ created' = created
             /\ pc' = pc
       /\ DOMAIN flowMap' # DOMAIN flowMap =>
             pc["div"] = "o161" /\ pc'["div"] = "n318"]_vars

C13_Witness ==
    /\ pc["snf"] = "f205"
    /\ ~curFrame.te
    /\ curFrame.flow \in Engines
    /\ Eng(curFrame.flow).traceResult # <<>>
    /\ ~Eng(curFrame.flow).stopped

\* C14: every REPEAT verdict that carries a replacement packet carries a TTL
\* in 1..ttlMax.
C14_RepeatTtlInRange ==
    \A i \in DOMAIN verdict :
        (verdict[i].kind = "REPEAT" /\ verdict[i].bytes) =>
            /\ curPkt.flow \in Engines
            /\ verdict[i].ttl \in 1..Eng(curPkt.flow).ttlMax

\* C15: every address stored in traceResult[k] is the source of a reply to a
\* probe reinjected with TTL k (the router at hop k has address k), and every
\* key of traceResult lies in 1..ttlMax.
C15_HopAttribution ==
    \A f \in Engines :
        \A k \in DOMAIN Eng(f).traceResult :
            /\ k \in 1..Eng(f).ttlMax
            /\ \A i \in DOMAIN Eng(f).traceResult[k] : Eng(f).traceResult[k][i] = k

\* the divertor consumer leaves the statement at label l
DivLeaves(l) == pc["div"] = l /\ pc'["div"] # l

C17_CallsReturn ==
    (pc["div"] = "n318") ~> (pc["div"] = "d143")

\* C18: whatever Stop() the sniffer or the timer runs meanwhile, a call of
\* processPacket never sends the restart signal (lines 332, 338) or the stop
\* signal (line 308) on a control channel that is already closed, which
\* would panic.
C18_NoSendOnClosed ==
    panicked = "div" => pc["div"] \notin {"n332", "s308"}

\* C19: a mangle candidate whose packet cannot be serialized gets ACCEPT:
\* whenever processPacket has returned for a packet with IPv4 and TCP layers
\* that serializeWithTTL cannot serialize, the packet's verdict is ACCEPT.
C19_SerializeFailureAccepts ==
    (DivIdle /\ curPkt.layers /\ ~curPkt.ser) => verdict = <<Accept>>

\* C20: the timer fires at most once between two restart signals: time.After
\* never fires when it has fired already since the timer goroutine started
\* or took its last restart signal.
C20_FiresOncePerRestart ==
    [][\A f \in FlowKeys :
          (pc[f] = "t284" /\ pc'[f] = "t288") => ~expired[f]]_vars

====
